---------------------------- MODULE Spec2Model ----------------------------
(***************************************************************************)
(* A model of the plugin registry and execution layer of OceanBase Deploy  *)
(* (src/_plugin.py): version resolution in ComponentPluginLoader, the      *)
(* script-plugin execution contract of pyScriptPluginExec, the loader     *)
(* caches of PluginManager, the manifests of ParamPlugin and InstallPlugin, *)
(* SubIO, and the init script of obproxy 3.1.0.                            *)
(*                                                                         *)
(* Python strings are sequences of one-character strings, so that          *)
(* str.split, str comparison, str.upper and str.capitalize are computed    *)
(* the way Python computes them.  Python objects whose identity matters    *)
(* (return envelopes, contexts, loaders) live in heaps indexed by ids.     *)
(***************************************************************************)
EXTENDS Integers, Sequences, FiniteSets, TLC

VARIABLES
    \* ---- one ComponentPluginLoader and the directory it scans ----
    version_dirs,   \* names of the sub-directories of loader.path holding the flag file
    loader_stdio,   \* loader.stdio: "none", "warn" (has .warn) or "nowarn" (truthy, no .warn)
    plugins_cache,  \* loader._plugins: directory name -> Plugin, filled by get_plugins
    best_call,      \* the version the caller asks for, then the get_best_plugin call
                    \* made for it: request, result, notices
    \* ---- one PyScriptPlugin and its invocations ----
    pc,             \* "idle", "executing" while the entry function runs, or "deleted"
    module,         \* plugin.module: None or the imported module
    context,        \* plugin.context: None or the PluginContext of the running invocation
    env_heap,       \* the PluginReturn objects built so far, by id
    dl_calls,       \* how often each DynamicLoading entry point was called
    invocation,     \* the running invocation: its stdio and the calls the script made
    returned,       \* the PluginReturn each completed invocation returned, oldest first
    last_result,    \* the outcome of the invocation completed last
    \* ---- one PluginManager and the plugin classes of the module ----
    module_classes,             \* the plugin classes of module _plugin, by class name
    component_plugin_loaders,   \* manager.component_plugin_loaders: kind -> component -> loader
    py_script_plugin_loaders,   \* manager.py_script_plugin_loaders: script -> component -> loader
    loaders,                    \* the loader objects built so far, by id
    created,                    \* how many loaders were built for each cache key
    mgr_calls,                  \* the number of calls made to the manager
    mgr_call,                   \* the last call to the manager and its outcome
    \* ---- one ParamPlugin or InstallPlugin and its manifest file ----
    manifest_kind,  \* "param" (parameter.yaml) or "install" (file_map.yaml)
    manifest,       \* the manifest file on disk: missing, malformed, or what yaml.load gives
    src_data,       \* plugin._src_data / plugin._file_map: None until the first access
    accesses,       \* the results of the accesses to plugin.params / plugin.file_map
    \* ---- one SubIO built over a caller's stdio ----
    caller_io,      \* the stdio the caller passed last: None or an object with some methods
    sub_io,         \* the SubIO built last: None until one is built, then its stdio and
                    \* its _func cache
    io_log,         \* the calls that reached the caller's side, oldest first
    io_calls,       \* the method calls made on the SubIO and their outcomes, oldest first
    \* ---- one run of the init script of obproxy 3.1.0 ----
    servers,        \* cluster_config.servers, each with the home_path of its config
    command_ok,     \* server -> whether client.execute_command returns a true value
    init_pc,        \* the server the loop of init is at, or that init has returned
    global_ret,     \* the local global_ret of init
    executed,       \* the servers the command was run on, oldest first
    init_return     \* the PluginReturn of the plugin_context passed to init

resolve_vars == <<version_dirs, loader_stdio, plugins_cache, best_call>>

exec_vars ==
    <<pc, module, context, env_heap, dl_calls, invocation, returned, last_result>>

manager_vars ==
    <<module_classes, component_plugin_loaders, py_script_plugin_loaders, loaders,
      created, mgr_calls, mgr_call>>

manifest_vars == <<manifest_kind, manifest, src_data, accesses>>

subio_vars == <<caller_io, sub_io, io_log, io_calls>>

init_vars == <<servers, command_ok, init_pc, global_ret, executed, init_return>>

\* the parts modelled in the second half of the module
payload_vars == <<manifest_vars, subio_vars, init_vars>>

vars == <<resolve_vars, exec_vars, manager_vars, payload_vars>>

(***************************************************************************)
(* Bounds of the model.                                                    *)
(***************************************************************************)
MaxVerLen == 2      \* tokens per version string
MaxPlugins == 2     \* version directories under one component
MaxInvocations == 2 \* invocations of the script plugin
MaxScriptCalls == 2 \* return_true/return_false calls of one entry function run
MaxManagerCalls == 3 \* calls to the manager
MaxRecords == 2     \* records in a manifest
MaxPathLen == 2     \* characters in a source path
MaxAccesses == 2    \* accesses to plugin.params / plugin.file_map
MaxIoCalls == 2     \* method calls on one SubIO
MaxServers == 3     \* servers of the cluster configuration

\* the integers written into version tokens
TokenValues == {9, 10}

(***************************************************************************)
(* Python values.                                                          *)
(***************************************************************************)
None == [kind |-> "None"]

\* ord(c) of the characters that occur in the model's strings
Ord(c) ==
    CASE c = "." -> 46
      [] c = "0" -> 48 [] c = "1" -> 49 [] c = "2" -> 50 [] c = "3" -> 51
      [] c = "4" -> 52 [] c = "5" -> 53 [] c = "6" -> 54 [] c = "7" -> 55
      [] c = "8" -> 56 [] c = "9" -> 57
      [] c = "A" -> 65 [] c = "B" -> 66
      [] c = "_" -> 95
      [] c = "a" -> 97 [] c = "b" -> 98

DigitChar(d) ==
    CASE d = 0 -> "0" [] d = 1 -> "1" [] d = 2 -> "2" [] d = 3 -> "3"
      [] d = 4 -> "4" [] d = 5 -> "5" [] d = 6 -> "6" [] d = 7 -> "7"
      [] d = 8 -> "8" [] d = 9 -> "9"

DigitValue(c) == Ord(c) - 48

\* str(n) for a natural number n
RECURSIVE IntToStr(_)
IntToStr(n) ==
    IF n < 10 THEN <<DigitChar(n)>>
    ELSE IntToStr(n \div 10) \o <<DigitChar(n % 10)>>

\* int(s) for a string of decimal digits
RECURSIVE StrToInt(_)
StrToInt(s) ==
    IF s = <<>> THEN 0
    ELSE 10 * StrToInt(SubSeq(s, 1, Len(s) - 1)) + DigitValue(s[Len(s)])

\* '.'.join(tokens)
RECURSIVE DotJoin(_)
DotJoin(tokens) ==
    IF tokens = <<>> THEN <<>>
    ELSE IF Len(tokens) = 1 THEN tokens[1]
    ELSE tokens[1] \o <<".">> \o DotJoin(Tail(tokens))

\* s.split(sep) for a one-character sep: the pieces of s between the
\* separators, empty pieces kept
RECURSIVE SplitFrom(_, _, _)
SplitFrom(s, sep, cur) ==
    IF s = <<>> THEN <<cur>>
    ELSE IF Head(s) = sep THEN <<cur>> \o SplitFrom(Tail(s), sep, <<>>)
    ELSE SplitFrom(Tail(s), sep, Append(cur, Head(s)))

split(s, sep) == SplitFrom(s, sep, <<>>)

\* c.upper() and c.lower() of one character
UpperChar(c) == CASE c = "a" -> "A" [] c = "b" -> "B" [] OTHER -> c

LowerChar(c) == CASE c = "A" -> "a" [] c = "B" -> "b" [] OTHER -> c

\* s.upper(), s.lower()
upper(s) == [i \in DOMAIN s |-> UpperChar(s[i])]

lower(s) == [i \in DOMAIN s |-> LowerChar(s[i])]

\* s.capitalize(): the first character upper-cased, the others lower-cased
capitalize(s) == IF s = <<>> THEN <<>> ELSE <<UpperChar(Head(s))>> \o lower(Tail(s))

\* ''.join(words)
RECURSIVE join(_)
join(words) == IF words = <<>> THEN <<>> ELSE Head(words) \o join(Tail(words))

\* a < b for two Python str: lexicographic by code point, a proper prefix is smaller
RECURSIVE StrLess(_, _)
StrLess(a, b) ==
    IF b = <<>> THEN FALSE
    ELSE IF a = <<>> THEN TRUE
    ELSE IF Head(a) # Head(b) THEN Ord(Head(a)) < Ord(Head(b))
    ELSE StrLess(Tail(a), Tail(b))

\* a < b for two Python lists of str: the first differing pair decides by the
\* str order, a proper prefix is smaller
RECURSIVE ListLess(_, _)
ListLess(a, b) ==
    IF b = <<>> THEN FALSE
    ELSE IF a = <<>> THEN TRUE
    ELSE IF Head(a) # Head(b) THEN StrLess(Head(a), Head(b))
    ELSE ListLess(Tail(a), Tail(b))

\* the empty dict
EmptyDict == [k \in {} |-> None]

\* d[k] = v
DictSet(d, k, v) == [x \in DOMAIN d \cup {k} |-> IF x = k THEN v ELSE d[x]]

(***************************************************************************)
(* Plugin and ComponentPluginLoader.                                       *)
(***************************************************************************)
\* the loader's component: os.path.split(self.path)[1]
LoaderComponent == "obproxy"

\* Plugin.__init__: the version is kept as the list of its dot-separated tokens
Plugin(component_name, plugin_path, version) ==
    [kind |-> "Plugin", component_name |-> component_name,
     plugin_path |-> plugin_path, version |-> split(version, ".")]

\* ComponentPluginLoader.get_plugins over the flag files glob() yields, in glob's
\* order: a cached Plugin is reused, a new one is built from the directory name
RECURSIVE get_plugins(_, _, _)
get_plugins(component_name, flag_dirs, cache) ==
    IF flag_dirs = <<>> THEN [plugins |-> <<>>, cache |-> cache]
    ELSE
        LET d == Head(flag_dirs)
            plugin == IF d \in DOMAIN cache THEN cache[d]
                      ELSE Plugin(component_name, d, d)
            rest == get_plugins(component_name, Tail(flag_dirs), DictSet(cache, d, plugin))
        IN  [plugins |-> <<plugin>> \o rest.plugins, cache |-> rest.cache]

\* max(plugins, key=lambda x: x.version): the first of the greatest
RECURSIVE PyMaxFrom(_, _)
PyMaxFrom(best, plugins) ==
    IF plugins = <<>> THEN best
    ELSE IF ListLess(best.version, Head(plugins).version)
         THEN PyMaxFrom(Head(plugins), Tail(plugins))
         ELSE PyMaxFrom(best, Tail(plugins))

PyMax(plugins) == PyMaxFrom(Head(plugins), Tail(plugins))

\* the loop of get_best_plugin: an equal version returns at once, a smaller one
\* is appended to the candidates
RECURSIVE ScanPlugins(_, _, _)
ScanPlugins(plugins, version, older) ==
    IF plugins = <<>> THEN [exact |-> None, older |-> older]
    ELSE IF Head(plugins).version = version
         THEN [exact |-> Head(plugins), older |-> older]
    ELSE IF ListLess(Head(plugins).version, version)
         THEN ScanPlugins(Tail(plugins), version, Append(older, Head(plugins)))
    ELSE ScanPlugins(Tail(plugins), version, older)

\* the loop without the return on an equal version
RECURSIVE ScanPluginsNoExact(_, _, _)
ScanPluginsNoExact(plugins, version, older) ==
    IF plugins = <<>> THEN [exact |-> None, older |-> older]
    ELSE IF ListLess(Head(plugins).version, version)
         THEN ScanPluginsNoExact(Tail(plugins), version, Append(older, Head(plugins)))
    ELSE ScanPluginsNoExact(Tail(plugins), version, older)

\* the fallback notice: self.stdio and getattr(self.stdio, 'warn', print)(...)
FallbackNotice(stdio, component_name, version, plugin) ==
    IF stdio = "none" THEN <<>>
    ELSE <<[via |-> IF stdio = "warn" THEN "warn" ELSE "print",
            component |-> component_name,
            requested |-> DotJoin(version),
            used |-> DotJoin(plugin.version)]>>

\* get_best_plugin with a given loop: the result, the candidates and the notices
BestOf(scan, stdio, component_name, version) ==
    IF scan.exact # None
    THEN [ret |-> scan.exact, older |-> scan.older, notices |-> <<>>]
    ELSE IF scan.older # <<>>
    THEN [ret |-> PyMax(scan.older), older |-> scan.older,
          notices |-> FallbackNotice(stdio, component_name, version, PyMax(scan.older))]
    ELSE [ret |-> None, older |-> scan.older, notices |-> <<>>]

get_best_plugin_no_exact(plugins, version, stdio, component_name) ==
    BestOf(ScanPluginsNoExact(plugins, split(version, "."), <<>>), stdio,
           component_name, split(version, "."))

\* ComponentPluginLoader.get_best_plugin(version) over the plugins get_plugins() gave
get_best_plugin(plugins, version, stdio, component_name) ==
    BestOf(ScanPlugins(plugins, split(version, "."), <<>>), stdio,
           component_name, split(version, "."))

(***************************************************************************)
(* Inputs of the resolver: dotted versions written from TokenValues.       *)
(***************************************************************************)
TokenLists == UNION {[1..n -> TokenValues] : n \in 1..MaxVerLen}

VersionString(tokens) == DotJoin([i \in DOMAIN tokens |-> IntToStr(tokens[i])])

VersionStrings == {VersionString(t) : t \in TokenLists}

\* the orders in which glob() may list a set of directories
GlobOrders(S) ==
    {o \in [1..Cardinality(S) -> S] : \A i, j \in DOMAIN o : i # j => o[i] # o[j]}

StdioKinds == {"none", "warn", "nowarn"}

NoCall == [kind |-> "NoCall"]

\* loader.get_best_plugin(version), for the version the caller asks for; a
\* repeated call finds the Plugin objects in loader._plugins
GetBestPlugin(version) ==
    /\ best_call.version = version
    /\ \E order \in GlobOrders(version_dirs) :
        LET found == get_plugins(LoaderComponent, order, plugins_cache)
            best == get_best_plugin(found.plugins, version, loader_stdio, LoaderComponent)
        IN  /\ plugins_cache' = found.cache
            /\ best_call' = [kind |-> "Call", version |-> version, ret |-> best.ret,
                             older |-> {p.plugin_path : p \in
                                           {best.older[i] : i \in DOMAIN best.older}},
                             notices |-> best.notices, raised |-> FALSE]
            /\ UNCHANGED <<version_dirs, loader_stdio, exec_vars, manager_vars, payload_vars>>

(***************************************************************************)
(* SubIO, the stdio a script plugin's context carries.                     *)
(*                                                                         *)
(* A caller's stdio is None or an object with some methods; its sub_io     *)
(* method, if it has one, returns the object itself or a child object with *)
(* methods of its own.                                                     *)
(***************************************************************************)
IoMethods == {"print", "warn"}

\* what stdio.sub_io() gives: no such method, the stdio itself, or a child
SubIoKinds == {"absent", "self", "child"}

IoObject(methods, sub, child_methods) ==
    [kind |-> "io", methods |-> methods, sub_io |-> sub, child_methods |-> child_methods]

CallerIos ==
    {None}
        \cup {IoObject(m, k, {}) : m \in SUBSET IoMethods, k \in {"absent", "self"}}
        \cup {IoObject(m, "child", c) : m \in SUBSET IoMethods, c \in SUBSET IoMethods}

\* the names a script calls on its stdio: methods an stdio may have, a method no
\* stdio of the model has, and the names of SubIO's own instance attributes
CallNames == {"print", "warn", "verbose", "stdio", "_func"}

\* the instance attributes SubIO.__init__ sets; __getattr__ is not asked for them
InstanceAttrs == {"stdio", "_func"}

\* SubIO.__init__: self.stdio = getattr(stdio, 'sub_io', lambda: None)()
SubIOInit(stdio) ==
    [stdio |-> IF stdio = None \/ stdio.sub_io = "absent" THEN None
               ELSE IF stdio.sub_io = "self"
                    THEN [on |-> "caller", methods |-> stdio.methods]
                    ELSE [on |-> "child", methods |-> stdio.child_methods],
     func |-> EmptyDict]

\* getattr(self.stdio, name, self._temp_function)
SubIOTarget(sub, name) ==
    IF sub.stdio # None /\ name \in sub.stdio.methods THEN sub.stdio.on ELSE "_temp_function"

\* SubIO.__getattr__(name): the target is looked up once and kept in self._func
SubIOGetattr(sub, name) ==
    IF name \in DOMAIN sub.func THEN sub
    ELSE [sub EXCEPT !.func = DictSet(sub.func, name, SubIOTarget(sub, name))]

\* SubIO(stdio) for the stdio of a caller
NewSubIO ==
    /\ sub_io = None
    /\ sub_io' = SubIOInit(caller_io)
    /\ io_log' = IF caller_io # None /\ caller_io.sub_io # "absent"
                 THEN Append(io_log, [on |-> "caller", name |-> "sub_io"])
                 ELSE io_log
    /\ UNCHANGED <<caller_io, io_calls, manifest_vars, init_vars,
                   resolve_vars, exec_vars, manager_vars>>

\* sub_stdio.<name>(...): an instance attribute is returned as it is and calling
\* it raises TypeError; any other name goes through __getattr__ and the target is
\* called
SubIOCall(name) ==
    /\ sub_io # None
    /\ Len(io_calls) < MaxIoCalls
    /\ IF name \in InstanceAttrs
       THEN /\ io_calls' = Append(io_calls, [name |-> name, outcome |-> "TypeError"])
            /\ UNCHANGED <<sub_io, io_log>>
       ELSE LET sub == SubIOGetattr(sub_io, name)
            IN  /\ sub_io' = sub
                /\ IF sub.func[name] = "_temp_function"
                   THEN /\ io_calls' = Append(io_calls, [name |-> name, outcome |-> "noop"])
                        /\ UNCHANGED io_log
                   ELSE /\ io_calls' = Append(io_calls,
                                              [name |-> name, outcome |-> sub.func[name]])
                        /\ io_log' = Append(io_log, [on |-> sub.func[name], name |-> name])
    /\ UNCHANGED <<caller_io, manifest_vars, init_vars,
                   resolve_vars, exec_vars, manager_vars>>

(***************************************************************************)
(* PluginReturn, PluginContext and the invocation of a script plugin.      *)
(***************************************************************************)
\* the id of the next object built in a heap
NewId(heap) == Cardinality(DOMAIN heap) + 1

\* PluginReturn.__init__(value=False, *arg, **kwargs)
PluginReturn(value, args, kwargs) ==
    [return_value |-> value, return_args |-> args, return_kwargs |-> kwargs]

DefaultReturn == PluginReturn(FALSE, <<>>, {})

\* PluginReturn.__bool__
PluginReturnBool(ret) == IF ret.return_value THEN TRUE ELSE FALSE

set_return(ret, value) == [ret EXCEPT !.return_value = value]

set_args(ret, args) == [ret EXCEPT !.return_args = args]

set_kwargs(ret, kwargs) == [ret EXCEPT !.return_kwargs = kwargs]

\* return_true that keeps the named payload of the call before
return_true_keeps_kwargs(ret, args, kwargs) ==
    set_args(set_return(ret, TRUE), args)

\* PluginReturn.return_true(*args, **kwargs)
return_true(ret, args, kwargs) ==
    set_kwargs(set_args(set_return(ret, TRUE), args), kwargs)

\* return_false that keeps the positional payload of the call before
return_false_keeps_args(ret, args, kwargs) ==
    set_kwargs(set_return(ret, FALSE), kwargs)

\* PluginReturn.return_false(*args, **kwargs)
return_false(ret, args, kwargs) ==
    set_kwargs(set_args(set_return(ret, FALSE), args), kwargs)

\* a context whose envelope is the first one ever built, shared by all contexts
SharedReturnId(heap) == IF DOMAIN heap = {} THEN NewId(heap) ELSE CHOOSE i \in DOMAIN heap : \A j \in DOMAIN heap : i <= j

\* PluginContext.__init__: self._return = PluginReturn(), a new object
ContextReturnId(heap) == NewId(heap)

\* PluginContext.__init__: the fields of the new context
PluginContext(clients, stdio, ret_id) ==
    [kind |-> "PluginContext", clients |-> clients, stdio |-> stdio, ret |-> ret_id,
     attrs |-> {}]

\* ScriptPlugin.ClientForScriptPlugin.__init__
ClientForScriptPlugin(client, stdio) ==
    [kind |-> "ClientForScriptPlugin", client |-> client, stdio |-> stdio]

\* PyScriptPlugin._import: a plugin without a module adds its paths and imports
\* the module; `imported` is what DynamicLoading.import_module returns
plugin_import(mod, imported, dl) ==
    IF mod = None
    THEN [module |-> imported,
          dl |-> [dl EXCEPT !.add_libs_path = @ + 1, !.import_module = @ + 1]]
    ELSE [module |-> mod, dl |-> dl]

\* PyScriptPlugin._export: a plugin with a module removes its paths and exports
\* the module; self.module is left as it is
plugin_export(mod, dl) ==
    IF mod # None
    THEN [dl EXCEPT !.remove_libs_path = @ + 1, !.export_module = @ + 1]
    ELSE dl

\* an exception inside the entry function is logged when the caller gave a stdio:
\* stdio and getattr(stdio, 'exception', print)(...)
ExceptionLogged(stdio) == stdio # None

\* what DynamicLoading.import_module may return: the module, with or without a
\* function named after the action, or None when the import failed
ImportResults ==
    {None, [kind |-> "Module", has_entry |-> TRUE], [kind |-> "Module", has_entry |-> FALSE]}

\* the stdio a caller passes to an invocation
InvokeStdio == {None, IoObject({"print"}, "self", {})}

\* the clients a caller passes to an invocation: server -> client
InvokeClients == [server \in {"server1"} |-> "client1"]

\* the payloads a script passes to return_true / return_false
ArgsChoices == {<<>>, <<"a", "b">>}

KwargsChoices == {{}, {<<"x", 1>>}}

\* the attributes a script may set on its context
ContextAttrs == {"note"}

\* getattr(self.module, method_name, False) of a module that was imported
HasEntry(mod) == mod # None /\ mod.has_entry

\* ScriptPlugin.before_do: import, a SubIO over the caller's stdio, every client
\* wrapped with that SubIO, then a new PluginContext that carries them
before_do(clients, stdio, imported) ==
    LET imp == plugin_import(module, imported, dl_calls)
        sub_stdio == SubIOInit(stdio)
        sub_clients == [server \in DOMAIN clients |->
                           ClientForScriptPlugin(clients[server], sub_stdio)]
        eid == ContextReturnId(env_heap)
    IN  [module |-> imp.module, dl |-> imp.dl,
         sub_io |-> sub_stdio,
         io_log |-> IF stdio # None /\ stdio.sub_io # "absent"
                    THEN Append(io_log, [on |-> "caller", name |-> "sub_io"])
                    ELSE io_log,
         env_heap |-> DictSet(env_heap, eid, DefaultReturn),
         context |-> PluginContext(sub_clients, sub_stdio, eid)]

\* ScriptPlugin.after_do: export; the context is dropped by the action
after_do(mod, dl) == plugin_export(mod, dl)

\* _new_func up to the call of the entry function: before_do, and the module has
\* a function named after the action
Invoke(stdio, imported) ==
    /\ pc = "idle"
    /\ Len(returned) < MaxInvocations
    /\ LET b == before_do(InvokeClients, stdio, imported)
       IN  /\ HasEntry(b.module)
           /\ module' = b.module
           /\ dl_calls' = b.dl
           /\ env_heap' = b.env_heap
           /\ context' = b.context
           /\ sub_io' = b.sub_io
           /\ io_log' = b.io_log
    /\ caller_io' = stdio
    /\ invocation' = [stdio |-> stdio, calls |-> 0, last_call |-> None]
    /\ pc' = "executing"
    /\ UNCHANGED <<returned, last_result, resolve_vars, manager_vars,
                   io_calls, manifest_vars, init_vars>>

\* _new_func when no module was imported or it has no function named after the
\* action: before_do, nothing is called, the envelope of the new context is
\* returned and after_do runs
InvokeWithoutEntry(stdio, imported) ==
    /\ pc = "idle"
    /\ Len(returned) < MaxInvocations
    /\ LET b == before_do(InvokeClients, stdio, imported)
       IN  /\ ~HasEntry(b.module)
           /\ module' = b.module
           /\ env_heap' = b.env_heap
           /\ sub_io' = b.sub_io
           /\ io_log' = b.io_log
           /\ returned' = Append(returned, b.context.ret)
           /\ last_result' = [ret |-> b.context.ret, outcome |-> "absent",
                              raised |-> FALSE, logged |-> FALSE,
                              calls |-> 0, last_call |-> None]
           /\ dl_calls' = after_do(b.module, b.dl)
           /\ context' = None
    /\ caller_io' = stdio
    /\ UNCHANGED <<pc, invocation, resolve_vars, manager_vars,
                   io_calls, manifest_vars, init_vars>>

\* the entry function calls plugin_context.return_true(*args, **kwargs)
ScriptReturnTrue(args, kwargs) ==
    /\ pc = "executing"
    /\ invocation.calls < MaxScriptCalls
    /\ env_heap' = [env_heap EXCEPT ![context.ret] = return_true(@, args, kwargs)]
    /\ invocation' = [invocation EXCEPT !.calls = @ + 1,
                         !.last_call = PluginReturn(TRUE, args, kwargs)]
    /\ UNCHANGED <<pc, module, context, dl_calls, returned, last_result, resolve_vars, manager_vars,
                   payload_vars>>

\* the entry function calls plugin_context.return_false(*args, **kwargs)
ScriptReturnFalse(args, kwargs) ==
    /\ pc = "executing"
    /\ invocation.calls < MaxScriptCalls
    /\ env_heap' = [env_heap EXCEPT ![context.ret] = return_false(@, args, kwargs)]
    /\ invocation' = [invocation EXCEPT !.calls = @ + 1,
                         !.last_call = PluginReturn(FALSE, args, kwargs)]
    /\ UNCHANGED <<pc, module, context, dl_calls, returned, last_result, resolve_vars, manager_vars,
                   payload_vars>>

\* the entry function sets an attribute of its own on the context
ScriptSetAttr(name) ==
    /\ pc = "executing"
    /\ name \notin context.attrs
    /\ context' = [context EXCEPT !.attrs = @ \cup {name}]
    /\ UNCHANGED <<pc, module, env_heap, dl_calls, invocation, returned, last_result,
                   resolve_vars, manager_vars,
                   payload_vars>>

\* the tail of _new_func: ret = self.context.get_return(), after_do(), return ret
Complete(outcome, raised, logged) ==
    /\ returned' = Append(returned, context.ret)
    /\ last_result' = [ret |-> context.ret, outcome |-> outcome,
                       raised |-> raised, logged |-> logged,
                       calls |-> invocation.calls, last_call |-> invocation.last_call]
    /\ dl_calls' = after_do(module, dl_calls)
    /\ context' = None
    /\ invocation' = None
    /\ pc' = "idle"

\* the entry function returns: the envelope is collected and after_do runs
ScriptReturns ==
    /\ pc = "executing"
    /\ Complete("return", FALSE, FALSE)
    /\ UNCHANGED <<module, env_heap, resolve_vars, manager_vars,
                   payload_vars>>

\* the entry function raises an Exception: it is caught and logged, the envelope
\* is collected as it stands and after_do runs
ScriptRaises ==
    /\ pc = "executing"
    /\ Complete("raise", FALSE, ExceptionLogged(invocation.stdio))
    /\ UNCHANGED <<module, env_heap, resolve_vars, manager_vars,
                   payload_vars>>

\* ScriptPlugin.__del__ of a plugin nobody refers to any more: self._export()
Del ==
    /\ pc = "idle"
    /\ pc' = "deleted"
    /\ dl_calls' = plugin_export(module, dl_calls)
    /\ UNCHANGED <<module, context, env_heap, invocation, returned, last_result,
                   resolve_vars, manager_vars, payload_vars>>

(***************************************************************************)
(* PluginType, the plugin classes of the module, PyScriptPluginLoader and  *)
(* PluginManager.                                                          *)
(*                                                                         *)
(* A class name is kept as its fixed part and its variable word:           *)
(* 'PyScript%sPlugin' % w is [form |-> "PyScript", word |-> w], so that two *)
(* names are equal exactly when the Python strings are.                    *)
(***************************************************************************)
\* the members of the enum PluginType
PluginTypeMembers == {"START", "PARAM", "INSTALL", "PY_SCRIPT"}

\* PluginType.<member>.value
PluginTypeValue(member) ==
    CASE member = "START" -> [form |-> "Start", word |-> <<>>]
      [] member = "PARAM" -> [form |-> "Param", word |-> <<>>]
      [] member = "INSTALL" -> [form |-> "Install", word |-> <<>>]
      [] member = "PY_SCRIPT" -> [form |-> "PyScript", word |-> <<>>]

\* a member of PluginType as a value with .name and .value
PluginType(member) ==
    [name |-> [prefix |-> member, word |-> <<>>], value |-> PluginTypeValue(member)]

\* a file name: stem '.' ext
FileName(stem, ext) == [stem |-> stem, ext |-> ext]

\* the plugin classes module _plugin defines when it is imported; there is no
\* class StartPlugin, and PyScriptPlugin inherits FLAG_FILE = None
StaticClasses ==
    [c \in {PluginTypeValue("PARAM"), PluginTypeValue("INSTALL"),
            PluginTypeValue("PY_SCRIPT")} |->
        CASE c = PluginTypeValue("PARAM") ->
                [FLAG_FILE |-> FileName(<<"parameter">>, "yaml"),
                 PLUGIN_COMPONENT_NAME |-> None, PLUGIN_TYPE |-> PluginType("PARAM")]
          [] c = PluginTypeValue("INSTALL") ->
                [FLAG_FILE |-> FileName(<<"file_map">>, "yaml"),
                 PLUGIN_COMPONENT_NAME |-> None, PLUGIN_TYPE |-> PluginType("INSTALL")]
          [] c = PluginTypeValue("PY_SCRIPT") ->
                [FLAG_FILE |-> None, PLUGIN_COMPONENT_NAME |-> None,
                 PLUGIN_TYPE |-> None]]

\* PyScriptPluginLoader.__init__: type_name and type_value of a script name
PyScriptPluginType(script_name) ==
    [name |-> [prefix |-> "PY_SCRIPT_", word |-> upper(script_name)],
     value |-> [form |-> "PyScript",
                word |-> join([i \in DOMAIN split(script_name, "_") |->
                                  capitalize(split(script_name, "_")[i])])]]

\* PyScriptPluginLoader._create_: the class synthesized for a script name
CreateClass(script_name, plugin_type) ==
    [FLAG_FILE |-> FileName(script_name, "py"),
     PLUGIN_COMPONENT_NAME |-> script_name,
     PLUGIN_TYPE |-> plugin_type]

\* ComponentPluginLoader.__init__ once self.PLUGIN_TYPE is set: the class is
\* looked up in the module by PLUGIN_TYPE.value, ImportError when there is none
ComponentPluginLoaderInit(classes, plugin_type, component_name) ==
    IF plugin_type = None
    THEN [raised |-> "NotImplementedError", loader |-> None]
    ELSE IF plugin_type.value \notin DOMAIN classes
    THEN [raised |-> "ImportError", loader |-> None]
    ELSE [raised |-> "none",
          loader |-> [PLUGIN_TYPE |-> plugin_type, plguin_cls |-> plugin_type.value,
                      component_name |-> component_name, plugins |-> EmptyDict]]

\* PyScriptPluginLoader.__init__: an empty script name is refused, the class of
\* the type value is created unless the module has one, then the base __init__
PyScriptPluginLoaderInit(classes, script_name, component_name) ==
    IF script_name = <<>>
    THEN [raised |-> "NotImplementedError", loader |-> None, classes |-> classes]
    ELSE
        LET plugin_type == PyScriptPluginType(script_name)
            after == IF plugin_type.value \in DOMAIN classes THEN classes
                     ELSE DictSet(classes, plugin_type.value,
                                  CreateClass(script_name, plugin_type))
            base == ComponentPluginLoaderInit(after, plugin_type, component_name)
        IN  [raised |-> base.raised, loader |-> base.loader, classes |-> after]

\* a manager that keeps the loader dict of PY_SCRIPT
ManagerLoaderKindsAll == PluginTypeMembers

\* PluginManager.__init__: a loader dict per member of PluginType, PY_SCRIPT deleted
ManagerLoaderKinds == PluginTypeMembers \ {"PY_SCRIPT"}

\* every lookup misses the cache
NeedsLoaderAlways(cached, component_name) == TRUE

\* if component_name not in loaders
NeedsLoader(cached, component_name) == component_name \notin DOMAIN cached

\* the identity of a loader object: the cache key it was built for and how many
\* loaders had been built for that key before it
LoaderId(family, kind, script_name, component_name, serial) ==
    [family |-> family, kind |-> kind, script_name |-> script_name,
     component |-> component_name, serial |-> serial]

CacheKey(family, kind, script_name, component_name) ==
    [family |-> family, kind |-> kind, script_name |-> script_name,
     component |-> component_name]

Count(counts, key) == IF key \in DOMAIN counts THEN counts[key] ELSE 0

(***************************************************************************)
(* The plugin repository on disk: plugins/{component}/{version}/{file}.    *)
(***************************************************************************)
Components == {"obproxy", "oceanbase"}

RepoFile(component, version, file) ==
    [component |-> component, version |-> version, file |-> file]

PluginRepo ==
    {RepoFile("obproxy", <<"9">>, FileName(<<"parameter">>, "yaml")),
     RepoFile("obproxy", <<"9">>, FileName(<<"a">>, "py")),
     RepoFile("obproxy", <<"1", "0">>, FileName(<<"A">>, "py")),
     RepoFile("oceanbase", <<"9">>, FileName(<<"file_map">>, "yaml")),
     RepoFile("oceanbase", <<"9">>, FileName(<<"a", "_", "b">>, "py"))}

\* glob('%s/*/%s' % (self.path, self.plguin_cls.FLAG_FILE)): the version
\* directories of the component that hold the flag file
FlagDirs(component_name, flag_file) ==
    {f.version : f \in {g \in PluginRepo :
                           g.component = component_name /\ g.file = flag_file}}

\* the inputs of the manager's callers
KindInputs == PluginTypeMembers \cup {"OTHER"}

ScriptNames == {<<>>, <<"a">>, <<"A">>, <<"a", "_", "b">>}

ManagerVersions == {<<"9">>, <<"1", "0">>}

ManagerStdio == "warn"

\* loader.get_best_plugin(version) for the loader with this id, as the last step
\* of a manager call
Delegate(op, kind, script_name, component_name, version, lid, table, was_cached) ==
    \E order \in GlobOrders(FlagDirs(table[lid].component_name,
                                     module_classes'[table[lid].plguin_cls].FLAG_FILE)) :
        LET found == get_plugins(table[lid].component_name, order, table[lid].plugins)
            best == get_best_plugin(found.plugins, version, ManagerStdio,
                                    table[lid].component_name)
        IN  /\ loaders' = [table EXCEPT ![lid].plugins = found.cache]
            /\ mgr_call' = [op |-> op, kind |-> kind, script_name |-> script_name,
                            component |-> component_name, version |-> version,
                            ret |-> best.ret, raised |-> "none", loader |-> lid,
                            was_cached |-> was_cached, notices |-> best.notices]

\* a manager call that ends without reaching a loader
NoDelegate(op, kind, script_name, component_name, version, raised) ==
    /\ mgr_call' = [op |-> op, kind |-> kind, script_name |-> script_name,
                    component |-> component_name, version |-> version,
                    ret |-> None, raised |-> raised, loader |-> None,
                    was_cached |-> FALSE, notices |-> <<>>]
    /\ UNCHANGED loaders

\* PluginManager.get_best_plugin(plugin_type, component_name, version)
ManagerGetBestPlugin(plugin_type, component_name, version) ==
    /\ mgr_calls < MaxManagerCalls
    /\ mgr_calls' = mgr_calls + 1
    /\ UNCHANGED <<module_classes, py_script_plugin_loaders>>
    /\ LET key == CacheKey("component", plugin_type, <<>>, component_name)
           op == "get_best_plugin"
       IN  IF plugin_type \notin DOMAIN component_plugin_loaders
           THEN /\ NoDelegate(op, plugin_type, <<>>, component_name, version, "none")
                /\ UNCHANGED <<component_plugin_loaders, created>>
           ELSE IF NeedsLoader(component_plugin_loaders[plugin_type], component_name)
           THEN LET init == ComponentPluginLoaderInit(module_classes,
                                PluginType(plugin_type), component_name)
                    lid == LoaderId("component", plugin_type, <<>>, component_name,
                                    Count(created, key) + 1)
                IN  IF init.raised # "none"
                    THEN /\ NoDelegate(op, plugin_type, <<>>, component_name, version,
                                       init.raised)
                         /\ UNCHANGED <<component_plugin_loaders, created>>
                    ELSE /\ component_plugin_loaders' =
                               [component_plugin_loaders EXCEPT ![plugin_type] =
                                   DictSet(@, component_name, lid)]
                         /\ created' = DictSet(created, key, Count(created, key) + 1)
                         /\ Delegate(op, plugin_type, <<>>, component_name, version, lid,
                                     DictSet(loaders, lid, init.loader), FALSE)
           ELSE /\ UNCHANGED <<component_plugin_loaders, created>>
                /\ Delegate(op, plugin_type, <<>>, component_name, version,
                            component_plugin_loaders[plugin_type][component_name],
                            loaders, TRUE)
    /\ UNCHANGED <<resolve_vars, exec_vars, payload_vars>>

\* PluginManager.get_best_py_script_plugin(script_name, component_name, version)
ManagerGetBestPyScriptPlugin(script_name, component_name, version) ==
    /\ mgr_calls < MaxManagerCalls
    /\ mgr_calls' = mgr_calls + 1
    /\ UNCHANGED component_plugin_loaders
    /\ LET key == CacheKey("script", "PY_SCRIPT", script_name, component_name)
           op == "get_best_py_script_plugin"
           of_script == IF script_name \in DOMAIN py_script_plugin_loaders
                        THEN py_script_plugin_loaders
                        ELSE DictSet(py_script_plugin_loaders, script_name, EmptyDict)
       IN  IF NeedsLoader(of_script[script_name], component_name)
           THEN LET init == PyScriptPluginLoaderInit(module_classes, script_name,
                                                     component_name)
                    lid == LoaderId("script", "PY_SCRIPT", script_name, component_name,
                                    Count(created, key) + 1)
                IN  /\ module_classes' = init.classes
                    /\ IF init.raised # "none"
                       THEN /\ py_script_plugin_loaders' = of_script
                            /\ NoDelegate(op, "PY_SCRIPT", script_name, component_name,
                                          version, init.raised)
                            /\ UNCHANGED created
                       ELSE /\ py_script_plugin_loaders' =
                                  [of_script EXCEPT ![script_name] =
                                      DictSet(@, component_name, lid)]
                            /\ created' = DictSet(created, key, Count(created, key) + 1)
                            /\ Delegate(op, "PY_SCRIPT", script_name, component_name,
                                        version, lid, DictSet(loaders, lid, init.loader),
                                        FALSE)
           ELSE /\ UNCHANGED <<module_classes, py_script_plugin_loaders, created>>
                /\ Delegate(op, "PY_SCRIPT", script_name, component_name, version,
                            of_script[script_name][component_name], loaders, TRUE)
    /\ UNCHANGED <<resolve_vars, exec_vars, payload_vars>>

(***************************************************************************)
(* ParamPlugin.params and InstallPlugin.file_map.                          *)
(*                                                                         *)
(* The manifest file is missing (open raises), malformed (yaml.load        *)
(* raises), a value that cannot be iterated, or a list of records.  A      *)
(* record is a function from the fields it has to their values.            *)
(***************************************************************************)
\* ConfigUtil.get_value_from_dict(conf, key, default)
get_value_from_dict(conf, key, default) ==
    IF key \in DOMAIN conf THEN conf[key] ELSE default

\* ParamPlugin.ConfigItem.__init__
ConfigItem(name, default, require, need_restart, need_redeploy) ==
    [name |-> name, default |-> default, require |-> require,
     need_restart |-> need_restart, need_redeploy |-> need_redeploy]

\* the loop of ParamPlugin.params: conf['name'] of a record without a name raises
\* KeyError, which ends the loop inside the try block; the entries stored before
\* it stay in self._src_data
RECURSIVE LoadParams(_, _)
LoadParams(configs, data) ==
    IF configs = <<>> THEN data
    ELSE IF "name" \notin DOMAIN Head(configs) THEN data
    ELSE LoadParams(Tail(configs),
                    DictSet(data, Head(configs).name,
                            ConfigItem(Head(configs).name,
                                       get_value_from_dict(Head(configs), "default", None),
                                       get_value_from_dict(Head(configs), "require", FALSE),
                                       get_value_from_dict(Head(configs), "need_restart", FALSE),
                                       get_value_from_dict(Head(configs), "need_redeploy", FALSE))))

\* the try block of ParamPlugin.params: self._src_data = {} comes first, every
\* exception after it is swallowed
params(file) ==
    IF file.kind = "list" THEN LoadParams(file.configs, EmptyDict) ELSE EmptyDict

\* os.path.join('/', k): an absolute k replaces the root, any other k follows it
path_join_root(k) == IF k # <<>> /\ Head(k) = "/" THEN k ELSE <<"/">> \o k

\* the rewriting without the test of the first character
normalize_src_path_always(k) == <<".">> \o path_join_root(k)

\* if k[0] != '.': k = '.%s' % os.path.join('/', k)
normalize_src_path(k) == IF k[1] # "." THEN <<".">> \o path_join_root(k) ELSE k

\* v is None, for a v that is None or a str; the two are told apart by their
\* printed form, as a record and a sequence cannot be compared
IsNone(v) == ToString(v) = ToString(None)

\* the truth value of None or a str: a non-empty str is true
Truthy(v) == ~IsNone(v) /\ DOMAIN v # {}

\* InstallPlugin.FileItem.__init__: self.type = _type if _type else 'file'
FileItem(src_path, target_path, type) ==
    [src_path |-> src_path, target_path |-> target_path,
     type |-> IF Truthy(type) THEN type ELSE <<"f", "i", "l", "e">>]

\* the loop of InstallPlugin.file_map: data['src_path'] of a record without it
\* raises KeyError and k[0] of an empty path raises IndexError, which ends the loop
\* inside the try block; the entries stored before it stay in self._file_map
RECURSIVE LoadFileMap(_, _)
LoadFileMap(configs, data) ==
    IF configs = <<>> THEN data
    ELSE IF "src_path" \notin DOMAIN Head(configs) THEN data
    ELSE IF Head(configs).src_path = <<>> THEN data
    ELSE LET k == normalize_src_path(Head(configs).src_path)
         IN  LoadFileMap(Tail(configs),
                         DictSet(data, k,
                                 FileItem(k,
                                          get_value_from_dict(Head(configs), "target_path", k),
                                          get_value_from_dict(Head(configs), "type", None))))

\* the try block of InstallPlugin.file_map
file_map(file) ==
    IF file.kind = "list" THEN LoadFileMap(file.configs, EmptyDict) ELSE EmptyDict

\* the manifests of the model
ParamNames == {"p", "q"}

ParamRecords ==
    {[name |-> n] : n \in ParamNames}
        \cup {[name |-> n, need_redeploy |-> TRUE] : n \in ParamNames}
        \cup {[need_redeploy |-> TRUE]}

PathChars == {".", "/", "a"}

\* the source paths of the model, the empty one among them
SrcPaths == UNION {[1..n -> PathChars] : n \in 0..MaxPathLen}

FileRecords ==
    {[src_path |-> k] : k \in SrcPaths}
        \cup {[target_path |-> <<"t">>],
              [src_path |-> <<"a">>, type |-> <<>>],
              [src_path |-> <<"a">>, target_path |-> <<"t">>, type |-> <<"d", "i", "r">>]}

RecordLists(records) == UNION {[1..n -> records] : n \in 0..MaxRecords}

Manifests(records) ==
    {[kind |-> "missing"], [kind |-> "malformed"], [kind |-> "scalar"]}
        \cup {[kind |-> "list", configs |-> c] : c \in RecordLists(records)}

\* a dict held by the plugin
Dict(items) == [kind |-> "dict", items |-> items]

\* plugin.params: parsed at the first access, the same dict afterwards
Params ==
    /\ manifest_kind = "param"
    /\ Len(accesses) < MaxAccesses
    /\ src_data' = IF src_data = None THEN Dict(params(manifest)) ELSE src_data
    /\ accesses' = Append(accesses, [ret |-> src_data'.items, raised |-> FALSE])
    /\ UNCHANGED <<manifest_kind, manifest, subio_vars, init_vars,
                   resolve_vars, exec_vars, manager_vars>>

\* plugin.file_map: parsed at the first access, the same dict afterwards
FileMap ==
    /\ manifest_kind = "install"
    /\ Len(accesses) < MaxAccesses
    /\ src_data' = IF src_data = None THEN Dict(file_map(manifest)) ELSE src_data
    /\ accesses' = Append(accesses, [ret |-> src_data'.items, raised |-> FALSE])
    /\ UNCHANGED <<manifest_kind, manifest, subio_vars, init_vars,
                   resolve_vars, exec_vars, manager_vars>>

(***************************************************************************)
(* The init script of obproxy 3.1.0 (plugins/obproxy/3.1.0/init.py).       *)
(***************************************************************************)
HomePaths == {"/home/a", "/home/b"}

\* a server of cluster_config.servers with cluster_config.get_server_conf(server)
Server(id, home_path) == [id |-> id, home_path |-> home_path]

\* the command init runs on a server: 'mkdir -p %s/run' % (home_path)
InitCommand(server) ==
    [server |-> server.id, command |-> "mkdir -p", path |-> <<server.home_path, "run">>]

\* a loop in which the last command alone decides
last_command_decides(ret, ok) == ok

\* if not client.execute_command(...): global_ret = False
update_global_ret(ret, ok) == IF ~ok THEN FALSE ELSE ret

LoopAt(i) == [at |-> "loop", i |-> i]

InitDone == [at |-> "done"]

\* one turn of the for loop: the command is run on the next server
InitLoopStep ==
    /\ init_pc.at = "loop"
    /\ init_pc.i <= Len(servers)
    /\ executed' = Append(executed, InitCommand(servers[init_pc.i]))
    /\ global_ret' = update_global_ret(global_ret, command_ok[servers[init_pc.i].id])
    /\ init_pc' = LoopAt(init_pc.i + 1)
    /\ UNCHANGED <<servers, command_ok, init_return, manifest_vars, subio_vars,
                   resolve_vars, exec_vars, manager_vars>>

\* after the loop: global_ret and plugin_context.return_true()
InitReturn ==
    /\ init_pc.at = "loop"
    /\ init_pc.i > Len(servers)
    /\ init_return' = IF global_ret THEN return_true(init_return, <<>>, {})
                      ELSE init_return
    /\ init_pc' = InitDone
    /\ UNCHANGED <<servers, command_ok, global_ret, executed, manifest_vars, subio_vars,
                   resolve_vars, exec_vars, manager_vars>>

(***************************************************************************)
(* Initial states and specifications: one per part of the program, each   *)
(* leaving the other parts in their initial state.                        *)
(***************************************************************************)
InitResolveVars ==
    /\ version_dirs = {}
    /\ loader_stdio = "none"
    /\ plugins_cache = EmptyDict
    /\ best_call = NoCall

\* the script plugin before its first invocation: PyScriptPlugin.__init__
InitExecVars ==
    /\ pc = "idle"
    /\ module = None
    /\ context = None
    /\ env_heap = EmptyDict
    /\ dl_calls = [add_libs_path |-> 0, import_module |-> 0,
                   remove_libs_path |-> 0, export_module |-> 0]
    /\ invocation = None
    /\ returned = <<>>
    /\ last_result = None

\* the module as imported and a new PluginManager: PluginManager.__init__
InitManagerVars ==
    /\ module_classes = StaticClasses
    /\ component_plugin_loaders = [k \in ManagerLoaderKinds |-> EmptyDict]
    /\ py_script_plugin_loaders = EmptyDict
    /\ loaders = EmptyDict
    /\ created = EmptyDict
    /\ mgr_calls = 0
    /\ mgr_call = NoCall

\* a plugin whose manifest was never read: ParamPlugin.__init__, InstallPlugin.__init__
InitManifestVars ==
    /\ manifest_kind = "param"
    /\ manifest = [kind |-> "missing"]
    /\ src_data = None
    /\ accesses = <<>>

InitSubIOVars ==
    /\ caller_io = None
    /\ sub_io = None
    /\ io_log = <<>>
    /\ io_calls = <<>>

InitInitVars ==
    /\ servers = <<>>
    /\ command_ok = EmptyDict
    /\ init_pc = LoopAt(1)
    /\ global_ret = TRUE
    /\ executed = <<>>
    /\ init_return = DefaultReturn

InitPayloadVars == InitManifestVars /\ InitSubIOVars /\ InitInitVars

InitResolve ==
    /\ InitExecVars
    /\ InitManagerVars
    /\ InitPayloadVars
    /\ version_dirs \in {S \in SUBSET VersionStrings : Cardinality(S) <= MaxPlugins}
    /\ loader_stdio \in StdioKinds
    /\ plugins_cache = EmptyDict
    /\ best_call \in {[kind |-> "Request", version |-> v] : v \in VersionStrings}

NextResolve == \E version \in VersionStrings : GetBestPlugin(version)

SpecResolve == InitResolve /\ [][NextResolve]_vars

InitExec == InitExecVars /\ InitResolveVars /\ InitManagerVars /\ InitPayloadVars

NextExec ==
    \/ \E stdio \in InvokeStdio, imported \in ImportResults : Invoke(stdio, imported)
    \/ \E stdio \in InvokeStdio, imported \in ImportResults :
          InvokeWithoutEntry(stdio, imported)
    \/ \E args \in ArgsChoices, kwargs \in KwargsChoices : ScriptReturnTrue(args, kwargs)
    \/ \E args \in ArgsChoices, kwargs \in KwargsChoices : ScriptReturnFalse(args, kwargs)
    \/ \E name \in ContextAttrs : ScriptSetAttr(name)
    \/ ScriptReturns
    \/ ScriptRaises
    \/ Del

SpecExec == InitExec /\ [][NextExec]_vars

InitManager == InitManagerVars /\ InitResolveVars /\ InitExecVars /\ InitPayloadVars

NextManager ==
    \/ \E plugin_type \in KindInputs, component_name \in Components,
            version \in ManagerVersions :
          ManagerGetBestPlugin(plugin_type, component_name, version)
    \/ \E script_name \in ScriptNames, component_name \in Components,
            version \in ManagerVersions :
          ManagerGetBestPyScriptPlugin(script_name, component_name, version)

SpecManager == InitManager /\ [][NextManager]_vars

InitManifest ==
    /\ InitResolveVars
    /\ InitExecVars
    /\ InitManagerVars
    /\ InitSubIOVars
    /\ InitInitVars
    /\ manifest_kind \in {"param", "install"}
    /\ manifest \in Manifests(IF manifest_kind = "param" THEN ParamRecords ELSE FileRecords)
    /\ src_data = None
    /\ accesses = <<>>

NextManifest == Params \/ FileMap

SpecManifest == InitManifest /\ [][NextManifest]_vars

InitSubIO ==
    /\ InitResolveVars
    /\ InitExecVars
    /\ InitManagerVars
    /\ InitManifestVars
    /\ InitInitVars
    /\ caller_io \in CallerIos
    /\ sub_io = None
    /\ io_log = <<>>
    /\ io_calls = <<>>

NextSubIO == NewSubIO \/ \E name \in CallNames : SubIOCall(name)

SpecSubIO == InitSubIO /\ [][NextSubIO]_vars

\* init is entered with a context whose envelope is in the default state
InitInit ==
    /\ InitResolveVars
    /\ InitExecVars
    /\ InitManagerVars
    /\ InitManifestVars
    /\ InitSubIOVars
    /\ \E n \in 0..MaxServers :
          /\ servers \in {[i \in 1..n |-> Server(i, h[i])] : h \in [1..n -> HomePaths]}
          /\ command_ok \in [1..n -> BOOLEAN]
    /\ init_pc = LoopAt(1)
    /\ global_ret = TRUE
    /\ executed = <<>>
    /\ init_return = DefaultReturn

NextInit == InitLoopStep \/ InitReturn

SpecInit == InitInit /\ [][NextInit]_vars

(***************************************************************************)
(* Claims about version resolution, checked under SpecResolve.             *)
(***************************************************************************)
\* the order the specification asks for: token by token as integers, a proper
\* prefix is smaller
RECURSIVE IntTokenLess(_, _)
IntTokenLess(a, b) ==
    IF b = <<>> THEN FALSE
    ELSE IF a = <<>> THEN TRUE
    ELSE IF StrToInt(Head(a)) # StrToInt(Head(b))
         THEN StrToInt(Head(a)) < StrToInt(Head(b))
    ELSE IntTokenLess(Tail(a), Tail(b))

IntTokenLeq(a, b) == ~IntTokenLess(b, a)

\* the discovered versions that are <= v in the integer-token order
NotNewer(v) == {d \in version_dirs : IntTokenLeq(split(d, "."), split(v, "."))}

\* the greatest of a non-empty set of versions in the integer-token order
IntTokenMax(S) == CHOOSE d \in S : \A e \in S : IntTokenLeq(split(e, "."), split(d, "."))

Called == best_call.kind = "Call"

\* C1: a request for a discovered version returns exactly the artifact of that
\* version (built from that version's directory) and emits no fallback notice.
C1_ExactMatch ==
    (Called /\ best_call.version \in version_dirs) =>
        /\ best_call.ret = Plugin(LoaderComponent, best_call.version, best_call.version)
        /\ DotJoin(best_call.ret.version) = best_call.version
        /\ best_call.notices = <<>>
        /\ ~best_call.raised

\* C1's case: the requested version is discovered beside an older one that the
\* fallback would pick, in a loader that would print a notice.
C1_Witness ==
    /\ Called
    /\ best_call.version \in version_dirs
    /\ loader_stdio = "warn"
    /\ \E d \in version_dirs :
          d # best_call.version /\ ListLess(split(d, "."), split(best_call.version, "."))
    /\ best_call.ret.plugin_path = best_call.version

\* C2: when the requested version is not discovered but some discovered version is
\* <= it, the result is the greatest such version in the integer-token order and
\* exactly one fallback notice is emitted.
C2_FallbackIsIntegerMax ==
    (Called /\ best_call.version \notin version_dirs /\ NotNewer(best_call.version) # {}) =>
        /\ best_call.ret # None
        /\ best_call.ret.plugin_path = IntTokenMax(NotNewer(best_call.version))
        /\ Len(best_call.notices) = 1

\* C3: when no discovered version is <= the requested one in the integer-token
\* order, the result is none and no error is raised.
C3_NoneWhenNothingOlder ==
    (Called /\ NotNewer(best_call.version) = {}) =>
        (best_call.ret = None /\ ~best_call.raised)

\* C4: the resolver takes a discovered version for smaller than the requested one
\* exactly when it is smaller in the integer-token order.
C4_IntegerTokenOrder ==
    (Called /\ best_call.version \notin version_dirs) =>
        \A d \in version_dirs :
            (d \in best_call.older) <=> IntTokenLess(split(d, "."), split(best_call.version, "."))


\* C14: get_best_plugin never returns an artifact strictly newer than the
\* request: the result is none or an artifact whose version is <= the requested
\* one in the integer-token order.
C14_NeverNewer ==
    (Called /\ best_call.ret # None) =>
        IntTokenLeq(best_call.ret.version, split(best_call.version, "."))

(***************************************************************************)
(* Claims about the invocation of a script plugin, checked under SpecExec. *)
(***************************************************************************)
Completed == last_result # None

\* C5: an invocation whose entry function raised does not raise to its caller and
\* returns an envelope whose success flag is false, whatever the function did to
\* the context before it raised.
C5_RaiseGivesFailure ==
    (Completed /\ last_result.outcome = "raise") =>
        /\ ~last_result.raised
        /\ ~env_heap[last_result.ret].return_value

\* C6: the envelope an invocation returns is the state left by the last
\* return_true / return_false call of its entry function: success, positional
\* payload and named payload are those of that call, so return_true(a, b, x=1)
\* gives success with (a, b) and {x: 1}.
C6_EnvelopeIsLastCall ==
    (Completed /\ last_result.last_call # None) =>
        /\ ~last_result.raised
        /\ env_heap[last_result.ret] = last_result.last_call
        /\ (last_result.last_call.return_value
              <=> PluginReturnBool(env_heap[last_result.ret]))

\* C6's case: the entry function made two calls, the last of them
\* return_true(a, b, x=1), and returned.
C6_Witness ==
    /\ Completed
    /\ last_result.outcome = "return"
    /\ last_result.calls = MaxScriptCalls
    /\ last_result.last_call = PluginReturn(TRUE, <<"a", "b">>, {<<"x", 1>>})
    /\ env_heap[last_result.ret] = PluginReturn(TRUE, <<"a", "b">>, {<<"x", 1>>})

\* C7: invocations are independent: an invocation starts with no context left
\* from the one before, builds a context without attributes whose envelope is a
\* new object in the default state, returns an envelope no earlier invocation
\* returned, and no step changes an envelope that was already returned.
C7_InvocationsIndependent ==
    [][ /\ \A i \in DOMAIN returned : env_heap'[returned[i]] = env_heap[returned[i]]
        /\ (pc = "idle" /\ pc' = "executing") =>
              /\ context = None
              /\ context'.attrs = {}
              /\ context'.ret \notin DOMAIN env_heap
              /\ env_heap'[context'.ret] = DefaultReturn
        /\ (Len(returned') > Len(returned)) =>
              /\ \A i \in DOMAIN returned : returned[i] # returned'[Len(returned')]
              /\ context' = None
      ]_vars

\* C7's case: the first invocation returned success with payload, the second one
\* ran its entry function and returned the default envelope.
C7_Witness ==
    /\ Len(returned) = 2
    /\ env_heap[returned[1]] = PluginReturn(TRUE, <<"a", "b">>, {<<"x", 1>>})
    /\ last_result.outcome = "return"
    /\ env_heap[returned[2]] = DefaultReturn
    /\ returned[1] # returned[2]


\* the plugin is between invocations, one of them completed
BetweenInvocations == pc = "idle" /\ Completed

\* C13: when an invocation has returned, the artifact is Unloaded again: its
\* search-path entries are removed, its module reference is released and its
\* context is None, so that the next invocation would load again.
C13_UnloadedAfterInvocation ==
    BetweenInvocations =>
        /\ module = None
        /\ context = None
        /\ dl_calls.remove_libs_path = dl_calls.add_libs_path

\* C15: an invocation whose module has no function named after the action, or
\* that got no module, calls no entry function and raises nothing; it still
\* performs the unload step, so that no library path of the plugin is left on
\* the search path, the module reference is released and the context is None;
\* and it returns a new envelope in the default state (success false, no
\* positional and no named payload).
C15_AbsentEntryGivesDefault ==
    [][ (Len(returned') > Len(returned) /\ last_result'.outcome = "absent") =>
          /\ ~HasEntry(module')
          /\ last_result'.calls = 0
          /\ ~last_result'.raised
          /\ last_result'.ret = returned'[Len(returned')]
          /\ last_result'.ret \notin DOMAIN env_heap
          /\ env_heap'[last_result'.ret] = DefaultReturn
          /\ ~PluginReturnBool(env_heap'[last_result'.ret])
          /\ context' = None
          /\ pc' = "idle"
          /\ module' = None
          /\ dl_calls'.remove_libs_path = dl_calls'.add_libs_path
      ]_vars

\* C16: each return_true / return_false call on a context overwrites the three
\* fields of its envelope with the call's own: the flag is true resp. false, the
\* positional payload is the call's args and the named payload the call's kwargs,
\* nothing of earlier calls is kept; and the truthiness of every envelope equals
\* its success flag.
C16_CallOverwritesEnvelope ==
    [][ /\ (pc = "executing" /\ pc' = "executing"
                /\ invocation'.calls = invocation.calls + 1) =>
              /\ env_heap'[context.ret].return_value = invocation'.last_call.return_value
              /\ env_heap'[context.ret].return_args = invocation'.last_call.return_args
              /\ env_heap'[context.ret].return_kwargs = invocation'.last_call.return_kwargs
        /\ \A e \in DOMAIN env_heap' :
              PluginReturnBool(env_heap'[e]) = env_heap'[e].return_value
      ]_vars

\* C16's case: the entry function has made two calls, the last one return_false()
\* without payload, and the envelope holds no payload.
C16_Witness ==
    /\ pc = "executing"
    /\ invocation.calls = MaxScriptCalls
    /\ invocation.last_call = PluginReturn(FALSE, <<>>, {})
    /\ env_heap[context.ret] = DefaultReturn

\* C18: load and unload are balanced: no removal or export without an addition
\* or import before it that is not yet matched, and between invocations as many
\* removals as additions and as many exports as imports.
C18_LoadUnloadBalanced ==
    /\ dl_calls.remove_libs_path <= dl_calls.add_libs_path
    /\ dl_calls.export_module <= dl_calls.import_module
    /\ (pc = "idle") =>
          /\ dl_calls.remove_libs_path = dl_calls.add_libs_path
          /\ dl_calls.export_module = dl_calls.import_module

(***************************************************************************)
(* Claims about PluginManager and the script loader, checked under         *)
(* SpecManager.                                                            *)
(***************************************************************************)
ByKind == mgr_call.kind # "NoCall" /\ mgr_call.op = "get_best_plugin"

ByScript == mgr_call.kind # "NoCall" /\ mgr_call.op = "get_best_py_script_plugin"

\* a kind with an implementation the manager can reach: a loader dict in the
\* manager and a class of its name in the module
HasImplementation(kind) ==
    /\ kind \in PluginTypeMembers \ {"PY_SCRIPT"}
    /\ PluginTypeValue(kind) \in DOMAIN StaticClasses

\* C8 as stated: get_best_plugin with a kind that has no registered
\* implementation returns none and raises nothing.
C8_NoImplementationGivesNone ==
    (ByKind /\ ~HasImplementation(mgr_call.kind)) =>
        (mgr_call.ret = None /\ mgr_call.raised = "none")

\* C8 as amended: get_best_plugin with a kind that has no loader dict in the
\* manager (PY_SCRIPT, or a value that is no member of PluginType) returns none,
\* raises nothing and reaches no loader; with START, which has a loader dict but
\* no class, the loader's construction raises ImportError to the caller.
C8_UnregisteredKindGivesNone ==
    ByKind =>
        /\ (mgr_call.kind \notin {"START", "PARAM", "INSTALL"}) =>
              /\ mgr_call.ret = None
              /\ mgr_call.raised = "none"
              /\ mgr_call.loader = None
        /\ (mgr_call.kind = "START") =>
              (mgr_call.raised = "ImportError" /\ mgr_call.loader = None)
        /\ (mgr_call.raised # "none") => mgr_call.kind = "START"

\* C8's case: get_best_plugin is called with PY_SCRIPT for a component whose
\* script loader exists and finds artifacts, and returns none.
C8_Witness ==
    /\ ByKind
    /\ mgr_call.kind = "PY_SCRIPT"
    /\ mgr_call.component = "obproxy"
    /\ <<"a">> \in DOMAIN py_script_plugin_loaders
    /\ "obproxy" \in DOMAIN py_script_plugin_loaders[<<"a">>]
    /\ mgr_call.ret = None
    /\ mgr_call.raised = "none"

\* C9: the class a script loader uses for script name n has flag file n.py and
\* entry function name n, and a request for a name that was requested before
\* creates no class.
C9_KindNamedAfterScript ==
    [][ (mgr_calls' # mgr_calls /\ mgr_call'.op = "get_best_py_script_plugin"
            /\ mgr_call'.raised = "none") =>
          LET cls == module_classes'[loaders'[mgr_call'.loader].plguin_cls]
          IN  /\ cls.FLAG_FILE = FileName(mgr_call'.script_name, "py")
              /\ cls.PLUGIN_COMPONENT_NAME = mgr_call'.script_name
              /\ (mgr_call'.script_name \in DOMAIN py_script_plugin_loaders) =>
                    module_classes' = module_classes
      ]_vars

\* C10: at most one loader is ever built per (kind, component) and per
\* (script name, component); a cached loader stays cached under its key as the
\* same object, and a call that reaches a loader reaches the one cached for its
\* key, which is the one that was cached before the call if there was one.
C10_OneLoaderPerKey ==
    [][ /\ \A k \in DOMAIN created' : created'[k] <= 1
        /\ \A k \in DOMAIN component_plugin_loaders :
              \A c \in DOMAIN component_plugin_loaders[k] :
                 /\ c \in DOMAIN component_plugin_loaders'[k]
                 /\ component_plugin_loaders'[k][c] = component_plugin_loaders[k][c]
        /\ \A n \in DOMAIN py_script_plugin_loaders :
              /\ n \in DOMAIN py_script_plugin_loaders'
              /\ \A c \in DOMAIN py_script_plugin_loaders[n] :
                    /\ c \in DOMAIN py_script_plugin_loaders'[n]
                    /\ py_script_plugin_loaders'[n][c] = py_script_plugin_loaders[n][c]
        /\ (mgr_calls' # mgr_calls /\ mgr_call'.loader # None) =>
              IF mgr_call'.op = "get_best_plugin"
              THEN /\ component_plugin_loaders'[mgr_call'.kind][mgr_call'.component]
                         = mgr_call'.loader
                   /\ (mgr_call'.component
                          \in DOMAIN component_plugin_loaders[mgr_call'.kind]) =>
                         component_plugin_loaders[mgr_call'.kind][mgr_call'.component]
                            = mgr_call'.loader
              ELSE /\ py_script_plugin_loaders'[mgr_call'.script_name][mgr_call'.component]
                         = mgr_call'.loader
                   /\ (/\ mgr_call'.script_name \in DOMAIN py_script_plugin_loaders
                       /\ mgr_call'.component
                            \in DOMAIN py_script_plugin_loaders[mgr_call'.script_name]) =>
                         py_script_plugin_loaders[mgr_call'.script_name][mgr_call'.component]
                            = mgr_call'.loader
      ]_vars

\* C10's case: the third call reaches a loader that was cached by an earlier
\* call while loaders of both families are cached.
C10_Witness ==
    /\ mgr_calls = MaxManagerCalls
    /\ mgr_call.loader # None
    /\ mgr_call.was_cached
    /\ \E k \in DOMAIN component_plugin_loaders : DOMAIN component_plugin_loaders[k] # {}
    /\ \E n \in DOMAIN py_script_plugin_loaders : DOMAIN py_script_plugin_loaders[n] # {}

\* C19: script loaders cached for two distinct script names never share a
\* class: each discovers artifacts by the flag file of its own name and runs the
\* entry function of its own name.
C19_DistinctNamesDistinctKinds ==
    \A n1, n2 \in DOMAIN py_script_plugin_loaders :
        \A c1 \in DOMAIN py_script_plugin_loaders[n1],
           c2 \in DOMAIN py_script_plugin_loaders[n2] :
            n1 # n2 =>
                LET l1 == loaders[py_script_plugin_loaders[n1][c1]]
                    l2 == loaders[py_script_plugin_loaders[n2][c2]]
                IN  /\ l1.plguin_cls # l2.plguin_cls
                    /\ module_classes[l1.plguin_cls].FLAG_FILE = FileName(n1, "py")
                    /\ module_classes[l1.plguin_cls].PLUGIN_COMPONENT_NAME = n1
                    /\ module_classes[l2.plguin_cls].FLAG_FILE = FileName(n2, "py")
                    /\ module_classes[l2.plguin_cls].PLUGIN_COMPONENT_NAME = n2

(***************************************************************************)
(* Claims about the manifests, checked under SpecManifest.                 *)
(***************************************************************************)
\* the field a record of this plugin's manifest must have
RequiredField == IF manifest_kind = "param" THEN "name" ELSE "src_path"

\* the manifest is missing, unreadable, not a list of records, or has a record
\* without the required field at some position
Malformed ==
    \/ manifest.kind # "list"
    \/ \E i \in DOMAIN manifest.configs : RequiredField \notin DOMAIN manifest.configs[i]

\* C11: a missing or malformed manifest (unreadable, not a list of records, or
\* with a record lacking name, resp. src_path, at any position) yields an empty
\* mapping and no exception reaches the caller.
C11_MalformedGivesEmpty ==
    Malformed =>
        \A i \in DOMAIN accesses :
            (DOMAIN accesses[i].ret = {} /\ ~accesses[i].raised)

\* the records of a file manifest that the loop stores: those before the first
\* record that has no src_path or an empty one
Stored(j) ==
    /\ manifest_kind = "install"
    /\ manifest.kind = "list"
    /\ j \in DOMAIN manifest.configs
    /\ \A i \in 1..j : /\ "src_path" \in DOMAIN manifest.configs[i]
                       /\ manifest.configs[i].src_path # <<>>

\* C12: the key the file map stores for a non-empty source path p is p itself
\* when p starts with '.', and otherwise a path that starts with './'; storing is
\* idempotent: rewriting the stored key gives the stored key, and every key of
\* the file map is its own rewriting.
C12_NormalizeIdempotent ==
    \A a \in DOMAIN accesses :
        /\ \A k \in DOMAIN accesses[a].ret :
              manifest_kind = "install" =>
                 (normalize_src_path(k) = k /\ accesses[a].ret[k].src_path = k)
        /\ manifest_kind = "install" /\ manifest.kind = "list" =>
              \A j \in DOMAIN manifest.configs :
                 Stored(j) =>
                    LET p == manifest.configs[j].src_path
                    IN  /\ normalize_src_path(p) \in DOMAIN accesses[a].ret
                        /\ normalize_src_path(normalize_src_path(p)) = normalize_src_path(p)
                        /\ (Head(p) = ".") => normalize_src_path(p) = p
                        /\ (Head(p) # ".") =>
                              SubSeq(normalize_src_path(p), 1, 2) = <<".", "/">>

\* C12's case: a file manifest with an absolute path and a dotted path was read;
\* the first was rewritten, the second kept.
C12_Witness ==
    /\ manifest_kind = "install"
    /\ manifest = [kind |-> "list",
                   configs |-> <<[src_path |-> <<"/", "a">>], [src_path |-> <<".", "a">>]>>]
    /\ Len(accesses) = MaxAccesses
    /\ DOMAIN accesses[1].ret = {<<".", "/", "a">>, <<".", "a">>}
    /\ accesses[2].ret = accesses[1].ret

(***************************************************************************)
(* Claims about SubIO, checked under SpecSubIO.                            *)
(***************************************************************************)
\* the caller's stdio defines a method of this name
CallerDefines(name) == caller_io # None /\ name \in caller_io.methods

\* C17: a call of any method name on the SubIO never raises; it reaches the
\* caller's stdio exactly when the caller's stdio defines a method of that name,
\* and does nothing otherwise.
C17_ForwardsCallerMethods ==
    \A i \in DOMAIN io_calls :
        /\ io_calls[i].outcome \in {"caller", "noop"}
        /\ (io_calls[i].outcome = "caller") <=> CallerDefines(io_calls[i].name)

(***************************************************************************)
(* Claims about the init script, checked under SpecInit.                   *)
(***************************************************************************)
AllCommandsOk == \A i \in DOMAIN servers : command_ok[servers[i].id]

\* C20: init runs the command on every server in the order of the
\* configuration, also after a command failed; it calls return_true exactly when
\* no command failed and leaves the envelope in its default state otherwise, so
\* the envelope reports success exactly when every command succeeded (always,
\* with no servers).
C20_SuccessIffAllServersOk ==
    /\ Len(executed) <= Len(servers)
    /\ \A i \in DOMAIN executed : executed[i] = InitCommand(servers[i])
    /\ (init_pc.at = "loop") =>
          /\ Len(executed) = init_pc.i - 1
          /\ init_return = DefaultReturn
    /\ (init_pc = InitDone) =>
          /\ Len(executed) = Len(servers)
          /\ PluginReturnBool(init_return) <=> AllCommandsOk
          /\ init_return = IF AllCommandsOk THEN PluginReturn(TRUE, <<>>, {})
                           ELSE DefaultReturn

\* C20's case: the command failed on the first of MaxServers servers and
\* succeeded on all the others; it was run on all of them and the envelope is in
\* its default state.
C20_Witness ==
    /\ init_pc = InitDone
    /\ Len(servers) = MaxServers
    /\ ~command_ok[1]
    /\ \A i \in 2..MaxServers : command_ok[i]
    /\ Len(executed) = MaxServers
    /\ init_return = DefaultReturn

=============================================================================
